---- MODULE Spec2Model ----
(***************************************************************************)
(* A model of the go-exif Scanner (exif_scanner.go) and of the 8-byte      *)
(* EXIF/TIFF header codec (exif.go).                                       *)
(*                                                                         *)
(* Bytes are naturals in 0..255, byte slices are sequences, and offsets    *)
(* are 0-based as in the Go source.  The underlying io.ReadSeeker is the   *)
(* bytes.Reader that NewScannerLimitFromBytes creates: a record            *)
(* [data, pos].  A Scanner is the record [r, scanLimit, Size, Start,       *)
(* Current] of the Go struct.  Every method is an operator from the        *)
(* Scanner before the call to a record holding the Scanner after the call  *)
(* and the values returned.                                                *)
(***************************************************************************)
EXTENDS Integers, Sequences, FiniteSets, TLC

VARIABLES source, startLimit, s, pc, err, last, calls, probes, hdr, ext, walk, gps

vars == <<source, startLimit, s, pc, err, last, calls, probes, hdr, ext, walk, gps>>

-----------------------------------------------------------------------------
(* Bounds of the model *)

MaxLen == 5
MaxPad == 4
MaxTail == 1
MaxStartLimit == 3
MaxScanLimit == 2
MaxPeek == 2
MaxDiscard == 2
MaxCalls == 3
MaxOpPad == 2
MaxTags == 3

-----------------------------------------------------------------------------
(* Program constants *)

ExifSignatureLength == 8
DefaultStartLimit == 5242880
DefaultScanLimit == 1048576

ExifBigEndianSignature == <<77, 77, 0, 42>>
ExifLittleEndianSignature == <<73, 73, 42, 0>>

ErrNoExif == "no exif data"
ErrExifHeaderError == "exif header error"
EOF == "EOF"
ErrNegativePosition == "bytes.Reader.Seek: negative position"
NoError == "nil"
ErrUnparseableValue == "exifundefined.ErrUnparseableValue"
ErrUnhandledUndefinedTypedTag == "exifcommon.ErrUnhandledUndefinedTypedTag"
UnparseableUnknownTagValuePlaceholder == "!UNKNOWN"
\* an error of a collaborator other than the two above
ErrOther == "other error"
\* the error a caller's callback returns
ErrCallback == "callback error"

BigEndian == "BigEndian"
LittleEndian == "LittleEndian"
ByteOrders == {BigEndian, LittleEndian}

-----------------------------------------------------------------------------
(* Helpers on byte slices *)

Min(a, b) == IF a < b THEN a ELSE b

Max(a, b) == IF a < b THEN b ELSE a

Zeros(n) == [i \in 1..n |-> 0]

\* d[from : from+n] of Go, clipped to the slice
Slice(d, from, n) == SubSeq(d, from + 1, Min(from + n, Len(d)))

\* d[from:] of Go
Tail0(d, from) == SubSeq(d, from + 1, Len(d))

-----------------------------------------------------------------------------
(* encoding/binary: ByteOrder.PutUint32 and ByteOrder.Uint32 *)

\* A uint32 is the pair <<high 16 bits, low 16 bits>>: TLC's integers are
\* 32-bit signed and cannot hold 0xFFFFFFFE.
U32(hi, lo) == <<hi, lo>>

PutUint32(order, v) ==
    LET b0 == v[2] % 256
        b1 == (v[2] \div 256) % 256
        b2 == v[1] % 256
        b3 == (v[1] \div 256) % 256
    IN IF order = BigEndian THEN <<b3, b2, b1, b0>> ELSE <<b0, b1, b2, b3>>

Uint32(order, b) ==
    IF order = BigEndian
    THEN U32(b[1] * 256 + b[2], b[3] * 256 + b[4])
    ELSE U32(b[4] * 256 + b[3], b[2] * 256 + b[1])

-----------------------------------------------------------------------------
(* The header codec, exif.go *)

NoHeader == [ByteOrder |-> "none", FirstIfdOffset |-> U32(0, 0)]

\* ParseExifHeader reading the offset big-endian whatever the signature
ParseExifHeaderBigEndianOffset(data) ==
    IF Len(data) < ExifSignatureLength
    THEN [eh |-> NoHeader, err |-> ErrNoExif]
    ELSE IF SubSeq(data, 1, 4) = ExifBigEndianSignature
    THEN [eh |-> [ByteOrder |-> BigEndian,
                  FirstIfdOffset |-> Uint32(BigEndian, SubSeq(data, 5, 8))],
          err |-> NoError]
    ELSE IF SubSeq(data, 1, 4) = ExifLittleEndianSignature
    THEN [eh |-> [ByteOrder |-> LittleEndian,
                  FirstIfdOffset |-> Uint32(BigEndian, SubSeq(data, 5, 8))],
          err |-> NoError]
    ELSE [eh |-> NoHeader, err |-> ErrNoExif]

ParseExifHeader(data) ==
    IF Len(data) < ExifSignatureLength
    THEN [eh |-> NoHeader, err |-> ErrNoExif]
    ELSE IF SubSeq(data, 1, 4) = ExifBigEndianSignature
    THEN [eh |-> [ByteOrder |-> BigEndian,
                  FirstIfdOffset |-> Uint32(BigEndian, SubSeq(data, 5, 8))],
          err |-> NoError]
    ELSE IF SubSeq(data, 1, 4) = ExifLittleEndianSignature
    THEN [eh |-> [ByteOrder |-> LittleEndian,
                  FirstIfdOffset |-> Uint32(LittleEndian, SubSeq(data, 5, 8))],
          err |-> NoError]
    ELSE [eh |-> NoHeader, err |-> ErrNoExif]

\* BuildExifHeader writing the offset big-endian whatever the byte order
BuildExifHeaderBigEndianOffset(byteOrder, firstIfdOffset) ==
    LET signatureBytes == IF byteOrder = BigEndian
                          THEN ExifBigEndianSignature
                          ELSE ExifLittleEndianSignature
    IN [headerBytes |-> signatureBytes \o PutUint32(BigEndian, firstIfdOffset),
        err |-> NoError]

BuildExifHeader(byteOrder, firstIfdOffset) ==
    LET signatureBytes == IF byteOrder = BigEndian
                          THEN ExifBigEndianSignature
                          ELSE ExifLittleEndianSignature
    IN [headerBytes |-> signatureBytes \o PutUint32(byteOrder, firstIfdOffset),
        err |-> NoError]

-----------------------------------------------------------------------------
(* The underlying reader: bytes.Reader, as the Scanner calls it *)

NewReader(b) == [data |-> b, pos |-> 0]

\* r.Read(p) with len(p) = n: at or past the end it returns (0, EOF);
\* otherwise it copies what is there, at most n bytes, with a nil error.
\* b is the caller's buffer of n bytes (make([]byte, n)) after the call.
ReaderRead(rd, n) ==
    IF rd.pos >= Len(rd.data)
    THEN [r |-> rd, n |-> 0, b |-> Zeros(n), err |-> EOF]
    ELSE LET k == Min(n, Len(rd.data) - rd.pos)
         IN [r |-> [rd EXCEPT !.pos = rd.pos + k],
             n |-> k,
             b |-> Slice(rd.data, rd.pos, k) \o Zeros(n - k),
             err |-> NoError]

\* r.Seek(abs, io.SeekStart): a negative target leaves the reader where it
\* is and returns (0, error)
ReaderSeek(rd, abs) ==
    IF abs < 0
    THEN [r |-> rd, ret |-> 0, err |-> ErrNegativePosition]
    ELSE [r |-> [rd EXCEPT !.pos = abs], ret |-> abs, err |-> NoError]

\* ioutil.ReadAll(r): everything from the read position to the end
ReaderReadAll(rd) ==
    [r |-> [rd EXCEPT !.pos = Max(rd.pos, Len(rd.data))],
     b |-> Tail0(rd.data, rd.pos),
     err |-> NoError]

\* io.CopyN(dst, r, n): the bytes written to dst, and EOF when the reader
\* ends before n bytes were copied
ReaderCopyN(rd, n) ==
    LET avail == Max(0, Len(rd.data) - rd.pos)
        k == Max(0, Min(n, avail))
    IN [r |-> [rd EXCEPT !.pos = rd.pos + k],
        b |-> Slice(rd.data, rd.pos, k),
        err |-> IF k < n THEN EOF ELSE NoError]

-----------------------------------------------------------------------------
(* Scanner methods, exif_scanner.go.  Each result carries the Scanner      *)
(* after the call (s), the bytes returned (b), the integer returned (n),   *)
(* the error (err) and the number of bytes taken from the reader (read).   *)

Remaining(sc) == sc.Size - sc.Current

Read(sc, len) ==
    LET rr == ReaderRead(sc.r, len)
    IN [s |-> [sc EXCEPT !.r = rr.r, !.Current = @ + rr.n],
        b |-> rr.b, n |-> rr.n, err |-> rr.err, read |-> rr.n]

ReadAll(sc) ==
    LET ra == ReaderReadAll(sc.r)
    IN [s |-> [sc EXCEPT !.r = ra.r, !.Current = @ + Len(ra.b)],
        b |-> ra.b, n |-> Len(ra.b), err |-> ra.err, read |-> Len(ra.b)]

peekAll(sc) ==
    LET oldCurrent == sc.Current
        ra == ReadAll(sc)
    IN IF ra.err # NoError
       THEN ra
       ELSE LET sk == ReaderSeek(ra.s.r, oldCurrent)
            IN [ra EXCEPT !.s = [ra.s EXCEPT !.r = sk.r, !.Current = sk.ret],
                          !.err = sk.err]

PeekAndSeek(sc, n, offset) ==
    IF n = 0
    THEN peekAll(sc)
    ELSE LET oldCurrent == sc.Current
             rd == Read(sc, n)
             s1 == [rd.s EXCEPT !.Current = @ + rd.n]
         IN IF rd.err # NoError
            THEN [rd EXCEPT !.s = s1]
            ELSE LET sk == ReaderSeek(s1.r, oldCurrent + offset)
                 IN [rd EXCEPT !.s = [s1 EXCEPT !.r = sk.r, !.Current = sk.ret],
                               !.err = sk.err]

Peek(sc, n) ==
    IF n = 0
    THEN peekAll(sc)
    ELSE LET oldCurrent == sc.Current
             rd == Read(sc, n)
             s1 == [rd.s EXCEPT !.Current = @ + rd.n]
         IN IF rd.err # NoError
            THEN [rd EXCEPT !.s = s1]
            ELSE LET sk == ReaderSeek(s1.r, oldCurrent)
                 IN [rd EXCEPT !.s = [s1 EXCEPT !.r = sk.r, !.Current = sk.ret],
                               !.err = sk.err]

\* Discard seeking from the reader's position (io.SeekCurrent) instead of
\* from oldCurrent
DiscardSeekCurrent(sc, n) ==
    LET oldCurrent == sc.Current
        sk == ReaderSeek(sc.r, sc.r.pos + n)
        s1 == [sc EXCEPT !.r = sk.r, !.Current = sk.ret]
    IN [s |-> s1, b |-> <<>>, n |-> s1.Current - oldCurrent, err |-> sk.err,
        read |-> 0]

Discard(sc, n) ==
    LET oldCurrent == sc.Current
        sk == ReaderSeek(sc.r, oldCurrent + n)
        s1 == [sc EXCEPT !.r = sk.r, !.Current = sk.ret]
    IN [s |-> s1, b |-> <<>>, n |-> s1.Current - oldCurrent, err |-> sk.err,
        read |-> 0]

-----------------------------------------------------------------------------
(* NewScannerLimit, exif_scanner.go: one iteration of the search loop.     *)
(* The result is the Scanner, where the function stands afterwards         *)
(* ("search": the loop continues, "ready": (s, nil) was returned,          *)
(* "failed": (nil, err) was returned), the error, and whether the          *)
(* iteration probed a window.                                              *)

NewScanner0(rd, size, scanLimit) ==
    [r |-> ReaderSeek(rd, 0).r, scanLimit |-> scanLimit, Size |-> size,
     Start |-> 0, Current |-> 0]

\* a search loop that never looks at the limit
StartLimitNever(sc, limit) == FALSE

StartLimitReached(sc, limit) == limit > 0 /\ sc.Current > limit

NewScannerLimitIter(sc, limit) ==
    IF StartLimitReached(sc, limit)
    THEN [s |-> sc, pc |-> "failed", err |-> ErrNoExif, probed |-> 0]
    ELSE LET pk == PeekAndSeek(sc, ExifSignatureLength, 1)
         IN IF pk.err # NoError
            THEN [s |-> pk.s, pc |-> "failed",
                  err |-> IF pk.err = EOF THEN ErrNoExif ELSE pk.err,
                  probed |-> 1]
            ELSE LET s1 == [pk.s EXCEPT !.Start = @ + 1]
                     ph == ParseExifHeader(pk.b)
                 IN IF ph.err = ErrNoExif
                    THEN [s |-> s1, pc |-> "search", err |-> NoError, probed |-> 1]
                    ELSE IF ph.err # NoError
                    THEN [s |-> s1, pc |-> "failed", err |-> ph.err, probed |-> 1]
                    ELSE LET d == Discard(s1, -1)
                         IN IF d.err # NoError
                            THEN [s |-> d.s, pc |-> "failed", err |-> d.err,
                                  probed |-> 1]
                            ELSE [s |-> [d.s EXCEPT !.Start = @ - 1],
                                  pc |-> "ready", err |-> NoError, probed |-> 1]

\* log.PanicIf(err) under the deferred recover of the exported functions:
\* a non-nil error leaves the function as log.Wrap(err), a *errors.Error
\* that wraps err and is not == err
Panicked(e) == e # NoError

-----------------------------------------------------------------------------
(* SearchAndExtractExif, exif.go.  sc and scanErr are what NewScanner     *)
(* returned; a result carries the Scanner after the call, the slice        *)
(* returned, whether it is nil, the error and whether the error is a       *)
(* log.Wrap of its cause.                                                  *)

SearchAndExtractExifWithReadSeekerFromStart(sc, scanErr) ==
    IF scanErr # NoError
    THEN [s |-> sc, rawExif |-> <<>>, isNil |-> TRUE, err |-> scanErr,
          wrapped |-> Panicked(scanErr)]
    ELSE [s |-> sc, rawExif |-> sc.r.data, isNil |-> FALSE, err |-> NoError,
          wrapped |-> FALSE]

SearchAndExtractExifWithReadSeeker(sc, scanErr) ==
    IF scanErr # NoError
    THEN [s |-> sc, rawExif |-> <<>>, isNil |-> TRUE, err |-> scanErr,
          wrapped |-> Panicked(scanErr)]
    ELSE LET ra == ReadAll(sc)
         IN [s |-> ra.s, rawExif |-> ra.b, isNil |-> FALSE, err |-> ra.err,
             wrapped |-> Panicked(ra.err)]

\* err == ErrNoExif of Go: the error is the sentinel itself, not a wrapper
IsErrNoExif(res) == res.err = ErrNoExif /\ ~res.wrapped

SearchAndExtractExif(sc, scanErr) ==
    LET res == SearchAndExtractExifWithReadSeeker(sc, scanErr)
    IN IF res.err # NoError
       THEN IF IsErrNoExif(res)
            THEN [res EXCEPT !.rawExif = <<>>, !.isNil = TRUE]
            ELSE [res EXCEPT !.wrapped = TRUE]
       ELSE res

-----------------------------------------------------------------------------
(* GetFlatExifData, exif_scanner.go: the bounded spill and the header      *)
(* decode that follows it.                                                 *)

\* SpillSize without the clamp to the bytes that remain
SpillSizeNoClamp(sc) == sc.scanLimit

SpillSize(sc) ==
    IF sc.Current + sc.scanLimit > sc.Size
    THEN sc.Size - sc.Current
    ELSE sc.scanLimit

\* the spill taken also when the limit is 0
SpillEnabledAlways(sc) == sc.scanLimit >= 0

SpillEnabled(sc) == sc.scanLimit > 0

Spill(sc) ==
    IF SpillEnabled(sc)
    THEN LET newSize == SpillSize(sc)
             sk == ReaderSeek(sc.r, sc.Current)
             cp == ReaderCopyN(sk.r, newSize)
         IN IF cp.err # NoError
            THEN [s |-> [sc EXCEPT !.r = cp.r], err |-> cp.err,
                  copied |-> Len(cp.b)]
            ELSE [s |-> [sc EXCEPT !.r = NewReader(cp.b), !.Current = 0,
                                   !.Size = newSize],
                  err |-> NoError, copied |-> Len(cp.b)]
    ELSE [s |-> sc, err |-> NoError, copied |-> 0]

\* window, err := s.Peek(ExifSignatureLength); eh, err = ParseExifHeader(window)
DecodeHeader(sc) ==
    LET pk == Peek(sc, ExifSignatureLength)
    IN IF pk.err # NoError
       THEN [s |-> pk.s, b |-> pk.b, eh |-> NoHeader, err |-> pk.err]
       ELSE LET ph == ParseExifHeader(pk.b)
            IN [s |-> pk.s, b |-> pk.b, eh |-> ph.eh, err |-> ph.err]

\* Visit and Collect, exif.go, up to the start of the walk: the header at
\* the cursor is peeked and parsed, either error panics
Visit(sc) ==
    LET dh == DecodeHeader(sc)
    IN [s |-> dh.s, b |-> dh.b, eh |-> dh.eh, err |-> dh.err,
        wrapped |-> Panicked(dh.err)]

-----------------------------------------------------------------------------
(* The walk.  A tag entry is known by what its accessors return:
   rawErr from GetRawBytes, valueErr from Value, formatErr from Format and
   FormatFirst.  A tag's id is its place in depth-first pre-order. *)

FlatVisitorNoPlaceholder(exifTags, id, ite) ==
    IF ite.rawErr # NoError
    THEN IF ite.rawErr = ErrUnparseableValue
         THEN [exifTags |-> exifTags, err |-> NoError]
         ELSE [exifTags |-> exifTags, err |-> ite.rawErr]
    ELSE IF ite.valueErr # NoError
    THEN [exifTags |-> exifTags, err |-> ite.valueErr]
    ELSE IF ite.formatErr # NoError
    THEN [exifTags |-> exifTags, err |-> ite.formatErr]
    ELSE [exifTags |-> Append(exifTags,
                         [TagId |-> id, Value |-> "value",
                          ValueBytes |-> "bytes"]),
          err |-> NoError]

\* the visitor GetFlatExifData hands to Scan; a panic of the visitor
\* leaves it as an error
FlatVisitor(exifTags, id, ite) ==
    IF ite.rawErr # NoError
    THEN IF ite.rawErr = ErrUnparseableValue
         THEN [exifTags |-> exifTags, err |-> NoError]
         ELSE [exifTags |-> exifTags, err |-> ite.rawErr]
    ELSE IF ite.valueErr # NoError
            /\ ite.valueErr # ErrUnhandledUndefinedTypedTag
    THEN [exifTags |-> exifTags, err |-> ite.valueErr]
    ELSE IF ite.formatErr # NoError
    THEN [exifTags |-> exifTags, err |-> ite.formatErr]
    ELSE [exifTags |-> Append(exifTags,
                         [TagId |-> id,
                          Value |-> IF ite.valueErr = ErrUnhandledUndefinedTypedTag
                                    THEN UnparseableUnknownTagValuePlaceholder
                                    ELSE "value",
                          ValueBytes |-> "bytes"]),
          err |-> NoError]

\* the callback of a caller of Visit that fails on the tag failAt
VisitCallback(id, failAt) == IF id = failAt THEN ErrCallback ELSE NoError

\* one iteration of Scan: the visitor has been invoked on the next tag and
\* returned e; an error aborts the walk
ScanStep(w, exifTags, e) ==
    IF e = NoError
    THEN [w EXCEPT !.i = @ + 1, !.out = exifTags,
                   !.delivered = Append(@, w.i + 1)]
    ELSE [w EXCEPT !.pc = "aborted", !.out = exifTags,
                   !.delivered = Append(@, w.i + 1), !.err = e]

WalkResultNoError(w) ==
    [w EXCEPT !.pc = "done", !.err = NoError, !.wrapped = FALSE]

\* Scan has returned: log.PanicIf(err), then the results
WalkResult(w) ==
    [w EXCEPT !.pc = "done", !.wrapped = Panicked(w.err)]

-----------------------------------------------------------------------------
(* Floating point.  A float64 has 52 fraction bits, subnormals below the
   first binade and a spacing that doubles with every binade.  The model
   keeps that structure with 2 fraction bits: the non-negative values are
   counted in quarters (4 is 1.0), 0..3 are the subnormals, every binade
   has four values, and sums are rounded to nearest, ties to even. *)

\* the spacing of the values at x
Ulp(x) ==
    IF x < 8 THEN 1
    ELSE IF x < 16 THEN 2
    ELSE IF x < 32 THEN 4
    ELSE IF x < 64 THEN 8
    ELSE 16

FloatRound(v) ==
    LET u == Ulp(v)
        lo == v - (v % u)
        hi == lo + u
    IN IF v = lo THEN v
       ELSE IF 2 * (v - lo) < u THEN lo
       ELSE IF 2 * (v - lo) > u THEN hi
       ELSE IF (lo \div u) % 2 = 0 THEN lo ELSE hi

\* x + 1 of float64
FloatAddOne(x) == FloatRound(x + 4)

FloatSucc(x) == x + Ulp(x)

FloatPred(x) == IF x = 0 THEN 0 ELSE x - Ulp(x - 1)

\* math.Nextafter(x, y): the next value after x towards y
Nextafter(x, y) ==
    IF x = y THEN x
    ELSE IF y > x THEN FloatSucc(x)
    ELSE FloatPred(x)

GpsDegreesEquals(gi1, gi2) ==
    IF gi2.Orientation # gi1.Orientation
    THEN FALSE
    ELSE LET degreesRightBound == Nextafter(gi1.Degrees, FloatAddOne(gi1.Degrees))
             minutesRightBound == Nextafter(gi1.Minutes, FloatAddOne(gi1.Minutes))
             secondsRightBound == Nextafter(gi1.Seconds, FloatAddOne(gi1.Seconds))
         IN IF gi2.Degrees < gi1.Degrees \/ gi2.Degrees >= degreesRightBound
            THEN FALSE
            ELSE IF gi2.Minutes < gi1.Minutes \/ gi2.Minutes >= minutesRightBound
            THEN FALSE
            ELSE IF gi2.Seconds < gi1.Seconds \/ gi2.Seconds >= secondsRightBound
            THEN FALSE
            ELSE TRUE

-----------------------------------------------------------------------------
(* Inputs *)

Alphabet == {0, 42, 73, 77}

ShortSources == UNION {[1..k -> Alphabet] : k \in 0..MaxLen}

HeaderOffsets == {U32(0, 8), U32(65535, 65534)}

Headers == {BuildExifHeader(o, f).headerBytes : o \in ByteOrders, f \in HeaderOffsets}

Trailers == Headers \cup {<<>>, <<73, 73, 42>>, <<77, 77, 0>>}

HeaderSources ==
    {Zeros(k) \o h \o Zeros(t) \o g :
        k \in 0..MaxPad, h \in Headers, t \in 0..MaxTail, g \in Trailers}

SearchSources == ShortSources \cup HeaderSources

\* sources that end the search in each of its ways: a header, the limit,
\* the end of the source
TerminationSources ==
    {Zeros(k) \o h \o Zeros(t) :
        k \in 0..MaxPad, h \in Headers \cup {<<>>, <<73, 73, 42>>},
        t \in 0..MaxTail}

SearchLimits == (0..MaxStartLimit) \cup {DefaultStartLimit}

OpSources ==
    {Zeros(k) \o h \o t :
        k \in 0..MaxOpPad,
        h \in {BuildExifHeader(BigEndian, U32(0, 8)).headerBytes,
               BuildExifHeader(LittleEndian, U32(0, 8)).headerBytes, <<73, 73, 42>>},
        t \in {<<>>, <<5>>}}

\* <<startLimit, scanLimit>> of NewScannerNoLimit, NewScanner and NewScannerLimit
Constructors ==
    {<<0, 0>>, <<DefaultStartLimit, DefaultScanLimit>>}
        \cup {<<DefaultStartLimit, b>> : b \in 1..MaxScanLimit}

PeekSizes == (0..MaxPeek) \cup {ExifSignatureLength}

ReadSizes == 0..MaxPeek

DiscardSizes == (0 - MaxDiscard)..MaxDiscard

SeekOffsets == {-1, 0, 1}

OffsetBytes == {0, 1, 254, 255}

Offsets ==
    {U32(a * 256 + b, c * 256 + d) :
        a \in OffsetBytes, b \in OffsetBytes, c \in OffsetBytes, d \in OffsetBytes}

OffsetFields == {<<0, 0, 0, 8>>, <<1, 2, 3, 4>>, <<255, 255, 255, 254>>}

FullWindows == {g \o f : g \in [1..4 -> Alphabet], f \in OffsetFields}

Windows == {SubSeq(w, 1, k) : w \in FullWindows, k \in 0..ExifSignatureLength}

TagEntries ==
    {t \in [rawErr : {NoError, ErrUnparseableValue, ErrOther},
            valueErr : {NoError, ErrUnhandledUndefinedTypedTag, ErrOther},
            formatErr : {NoError, ErrOther}] :
        /\ t.rawErr # NoError => t.valueErr = NoError /\ t.formatErr = NoError
        /\ t.valueErr = ErrOther => t.formatErr = NoError}

TagLists == UNION {[1..n -> TagEntries] : n \in 0..MaxTags}

PlainTag == [rawErr |-> NoError, valueErr |-> NoError, formatErr |-> NoError]

PlainTagLists == {[j \in 1..n |-> PlainTag] : n \in 0..MaxTags}

Orientations == {"N", "S"}

\* 0, 1.0, 1.75, 2.0, 10.0 and 16.0
FloatSamples == {0, 4, 7, 8, 40, 64}

\* the values within one unit in the last place of x
Neighbours(x) == {FloatPred(x), x, FloatSucc(x)}

GpsSamples ==
    [Orientation : Orientations, Degrees : FloatSamples,
     Minutes : FloatSamples, Seconds : FloatSamples]

-----------------------------------------------------------------------------
(* State *)

NoCall == [op |-> "none", n |-> 0, off |-> 0, b |-> <<>>, ret |-> 0,
           err |-> NoError, read |-> 0, eh |-> NoHeader, wrapped |-> FALSE]

HdrIdle == [pc |-> "idle", byteOrder |-> "none", firstIfdOffset |-> U32(0, 0),
            headerBytes |-> <<>>, eh |-> NoHeader, err |-> NoError]

ExtIdle == [pc |-> "idle", fn |-> "none", rawExif |-> <<>>, isNil |-> TRUE, err |-> NoError,
            wrapped |-> FALSE]

WalkIdle == [pc |-> "idle", mode |-> "none", tags |-> <<>>, failAt |-> 0,
             i |-> 0, out |-> <<>>, delivered |-> <<>>, err |-> NoError,
             wrapped |-> FALSE]

GpsIdle == [pc |-> "idle", gi1 |-> <<>>, gi2 |-> <<>>, result |-> FALSE]

\* no Scanner is under construction or in use
NoScanner ==
    /\ source = <<>>
    /\ startLimit = 0
    /\ s = NewScanner0(NewReader(source), 0, 0)
    /\ pc = "none"
    /\ err = NoError
    /\ last = NoCall
    /\ calls = 0
    /\ probes = 0

InitScanner(sources, limits) ==
    /\ source \in sources
    /\ \E c \in limits :
          /\ startLimit = c[1]
          /\ s = NewScanner0(NewReader(source), Len(source), c[2])
    /\ pc = "search"
    /\ err = NoError
    /\ last = NoCall
    /\ calls = 0
    /\ probes = 0
    /\ hdr = HdrIdle
    /\ ext = ExtIdle
    /\ walk = WalkIdle
    /\ gps = GpsIdle

Init == InitScanner(OpSources, Constructors)

InitSearch ==
    InitScanner(SearchSources, {<<l, DefaultScanLimit>> : l \in SearchLimits})

InitHeader ==
    /\ source = <<>>
    /\ startLimit = 0
    /\ s = NewScanner0(NewReader(source), 0, 0)
    /\ pc = "none"
    /\ err = NoError
    /\ last = NoCall
    /\ calls = 0
    /\ probes = 0
    /\ \E o \in ByteOrders, f \in Offsets :
          hdr = [HdrIdle EXCEPT !.pc = "build", !.byteOrder = o,
                                !.firstIfdOffset = f]
    /\ ext = ExtIdle
    /\ walk = WalkIdle
    /\ gps = GpsIdle

\* ParseExifHeader is given a window of at most 8 bytes
InitParse ==
    /\ NoScanner
    /\ \E w \in Windows :
          hdr = [HdrIdle EXCEPT !.pc = "parse", !.headerBytes = w]
    /\ ext = ExtIdle
    /\ walk = WalkIdle
    /\ gps = GpsIdle

\* SearchAndExtractExif has made its reader and called NewScanner, which
\* searches with the default limits
InitExtract ==
    InitScanner(SearchSources, {<<DefaultStartLimit, DefaultScanLimit>>})

\* NewScannerLimit is about to be called
InitSearchCall ==
    /\ NoScanner
    /\ hdr = HdrIdle
    /\ ext = ExtIdle
    /\ walk = WalkIdle
    /\ gps = GpsIdle

\* the header has been decoded and Scan is about to start, from
\* GetFlatExifData or from Visit with a caller's callback
InitWalk ==
    /\ NoScanner
    /\ hdr = HdrIdle
    /\ ext = ExtIdle
    /\ \/ \E t \in TagLists :
             walk = [WalkIdle EXCEPT !.pc = "walking",
                                     !.mode = "GetFlatExifData", !.tags = t]
       \/ \E t \in PlainTagLists, f \in 0..(MaxTags + 1) :
             walk = [WalkIdle EXCEPT !.pc = "walking", !.mode = "Visit",
                                     !.tags = t, !.failAt = f]
    /\ gps = GpsIdle

\* GpsDegreesEquals is given two values, the second close to the first
InitGps ==
    /\ NoScanner
    /\ hdr = HdrIdle
    /\ ext = ExtIdle
    /\ walk = WalkIdle
    /\ \E a \in GpsSamples, o \in Orientations :
       \E d \in Neighbours(a.Degrees), m \in Neighbours(a.Minutes),
          sec \in Neighbours(a.Seconds) :
          gps = [GpsIdle EXCEPT !.pc = "call", !.gi1 = a,
                                !.gi2 = [Orientation |-> o, Degrees |-> d,
                                         Minutes |-> m, Seconds |-> sec]]

-----------------------------------------------------------------------------
(* Actions *)

Returned(op, n, off, res) ==
    [op |-> op, n |-> n, off |-> off, b |-> res.b, ret |-> res.n,
     err |-> res.err, read |-> res.read, eh |-> NoHeader, wrapped |-> FALSE]

Called(op, n, off, res) ==
    /\ s' = res.s
    /\ last' = Returned(op, n, off, res)
    /\ calls' = calls + 1
    /\ UNCHANGED <<source, startLimit, pc, err, probes, hdr, ext, walk, gps>>

\* NewScannerLimit(r, size, startLimit, scanLimit) is called and reaches
\* its loop
NewScannerLimitCall ==
    /\ pc = "none"
    /\ source' \in TerminationSources
    /\ startLimit' \in SearchLimits
    /\ s' = NewScanner0(NewReader(source'), Len(source'), DefaultScanLimit)
    /\ pc' = "search"
    /\ UNCHANGED <<err, last, calls, probes, hdr, ext, walk, gps>>

SearchStep ==
    /\ pc = "search"
    /\ \E it \in {NewScannerLimitIter(s, startLimit)} :
          /\ s' = it.s
          /\ pc' = it.pc
          /\ err' = it.err
          /\ probes' = probes + it.probed
    /\ UNCHANGED <<source, startLimit, last, calls, hdr, ext, walk, gps>>

CallRead ==
    /\ pc = "ready" /\ calls < MaxCalls
    /\ \E n \in ReadSizes : Called("Read", n, 0, Read(s, n))

CallReadAll ==
    /\ pc = "ready" /\ calls < MaxCalls
    /\ Called("ReadAll", 0, 0, ReadAll(s))

CallPeek ==
    /\ pc = "ready" /\ calls < MaxCalls
    /\ \E n \in PeekSizes : Called("Peek", n, 0, Peek(s, n))

CallPeekAndSeek ==
    /\ pc = "ready" /\ calls < MaxCalls
    /\ \E n \in PeekSizes, off \in SeekOffsets :
          Called("PeekAndSeek", n, off, PeekAndSeek(s, n, off))

CallDiscard ==
    /\ pc = "ready" /\ calls < MaxCalls
    /\ \E n \in DiscardSizes : Called("Discard", n, 0, Discard(s, n))

\* Visit or Collect up to the start of the walk
CallVisit ==
    /\ pc = "ready" /\ calls < MaxCalls
    /\ \E op \in {"Visit", "Collect"} :
          \E v \in {Visit(s)} :
             /\ s' = v.s
             /\ pc' = IF v.err = NoError THEN "walk" ELSE "ready"
             /\ last' = [NoCall EXCEPT !.op = op, !.b = v.b, !.eh = v.eh,
                                       !.err = v.err, !.wrapped = v.wrapped]
    /\ calls' = calls + 1
    /\ UNCHANGED <<source, startLimit, err, probes, hdr, ext, walk, gps>>

\* GetFlatExifData up to the spill; a failed copy panics and the call
\* returns the error
GetFlatExifDataSpill ==
    /\ pc = "ready" /\ calls < MaxCalls
    /\ LET sp == Spill(s)
       IN /\ s' = sp.s
          /\ pc' = IF sp.err = NoError THEN "spilled" ELSE "ready"
          /\ last' = [NoCall EXCEPT !.op = "GetFlatExifData", !.err = sp.err,
                                    !.read = sp.copied,
                                    !.wrapped = Panicked(sp.err)]
    /\ calls' = calls + 1
    /\ UNCHANGED <<source, startLimit, err, probes, hdr, ext, walk, gps>>

\* GetFlatExifData from the spill on: the header is peeked and parsed; an
\* error panics and the call returns it, otherwise the walk starts
GetFlatExifDataHeader ==
    /\ pc = "spilled"
    /\ LET dh == DecodeHeader(s)
       IN /\ s' = dh.s
          /\ pc' = IF dh.err = NoError THEN "walk" ELSE "ready"
          /\ last' = [last EXCEPT !.b = dh.b, !.err = dh.err,
                                  !.eh = dh.eh, !.wrapped = Panicked(dh.err)]
    /\ UNCHANGED <<source, startLimit, err, calls, probes, hdr, ext, walk, gps>>

BuildStep ==
    /\ hdr.pc = "build"
    /\ LET bh == BuildExifHeader(hdr.byteOrder, hdr.firstIfdOffset)
       IN hdr' = [hdr EXCEPT !.pc = "parse", !.headerBytes = bh.headerBytes,
                             !.err = bh.err]
    /\ UNCHANGED <<source, startLimit, s, pc, err, last, calls, probes,
                 ext, walk, gps>>

ParseStep ==
    /\ hdr.pc = "parse"
    /\ LET ph == ParseExifHeader(hdr.headerBytes)
       IN hdr' = [hdr EXCEPT !.pc = "done", !.eh = ph.eh, !.err = ph.err]
    /\ UNCHANGED <<source, startLimit, s, pc, err, last, calls, probes,
                 ext, walk, gps>>

\* Scan invokes the visitor of GetFlatExifData on the next tag
WalkFlatStep ==
    /\ walk.pc = "walking" /\ walk.mode = "GetFlatExifData"
    /\ walk.i < Len(walk.tags)
    /\ LET v == FlatVisitor(walk.out, walk.i + 1, walk.tags[walk.i + 1])
       IN walk' = ScanStep(walk, v.exifTags, v.err)
    /\ UNCHANGED <<source, startLimit, s, pc, err, last, calls, probes,
                 hdr, ext, gps>>

\* Scan invokes the callback given to Visit on the next tag
WalkVisitStep ==
    /\ walk.pc = "walking" /\ walk.mode = "Visit"
    /\ walk.i < Len(walk.tags)
    /\ walk' = ScanStep(walk, walk.out, VisitCallback(walk.i + 1, walk.failAt))
    /\ UNCHANGED <<source, startLimit, s, pc, err, last, calls, probes,
                 hdr, ext, gps>>

\* Scan returns, after the last tag or on an abort, and so does its caller
WalkReturn ==
    /\ \/ walk.pc = "aborted"
       \/ walk.pc = "walking" /\ walk.i = Len(walk.tags)
    /\ walk' = WalkResult(walk)
    /\ UNCHANGED <<source, startLimit, s, pc, err, last, calls, probes,
                 hdr, ext, gps>>

\* NewScanner has returned to SearchAndExtractExifWithReadSeeker, called by
\* its user or by SearchAndExtractExif; the call runs to its return
ExtractStep ==
    /\ pc \in {"ready", "failed"} /\ ext.pc = "idle"
    /\ \E fn \in {"SearchAndExtractExif", "SearchAndExtractExifWithReadSeeker"} :
          LET res == IF fn = "SearchAndExtractExif"
                     THEN SearchAndExtractExif(s, err)
                     ELSE SearchAndExtractExifWithReadSeeker(s, err)
          IN /\ s' = res.s
             /\ ext' = [pc |-> "done", fn |-> fn, rawExif |-> res.rawExif,
                        isNil |-> res.isNil, err |-> res.err,
                        wrapped |-> res.wrapped]
    /\ UNCHANGED <<source, startLimit, pc, err, last, calls, probes,
                 hdr, walk, gps>>

GpsStep ==
    /\ gps.pc = "call"
    /\ gps' = [gps EXCEPT !.pc = "done",
                          !.result = GpsDegreesEquals(gps.gi1, gps.gi2)]
    /\ UNCHANGED <<source, startLimit, s, pc, err, last, calls, probes,
                 hdr, ext, walk>>

Next ==
    \/ SearchStep
    \/ CallRead
    \/ CallReadAll
    \/ CallPeek
    \/ CallPeekAndSeek
    \/ CallDiscard
    \/ GetFlatExifDataSpill
    \/ GetFlatExifDataHeader
    \/ CallVisit

Spec == Init /\ [][Next]_vars

SpecSearch == InitSearch /\ [][SearchStep]_vars

\* NewScannerLimit from its call on; the call is not suspended: a step
\* that can run does run
NextSearchCall == NewScannerLimitCall \/ SearchStep

SpecSearchFair ==
    InitSearchCall /\ [][NextSearchCall]_vars /\ WF_vars(NextSearchCall)

NextHeader == BuildStep \/ ParseStep

SpecHeader == InitHeader /\ [][NextHeader]_vars

SpecParse == InitParse /\ [][ParseStep]_vars

NextWalk == WalkFlatStep \/ WalkVisitStep \/ WalkReturn

SpecWalk == InitWalk /\ [][NextWalk]_vars

SpecGps == InitGps /\ [][GpsStep]_vars

NextExtract == SearchStep \/ ExtractStep

SpecExtract == InitExtract /\ [][NextExtract]_vars

-----------------------------------------------------------------------------
(* Properties *)

HasSignatureAt(d, k) ==
    /\ k + 4 <= Len(d)
    /\ \/ Slice(d, k, 4) = ExifBigEndianSignature
       \/ Slice(d, k, 4) = ExifLittleEndianSignature

SignatureOffsets(d) == {k \in 0..Len(d) : HasSignatureAt(d, k)}

IsFirstSignature(d, k) ==
    /\ k \in SignatureOffsets(d)
    /\ \A j \in SignatureOffsets(d) : k <= j

\* a call of the method op is the step from the unprimed to the primed state
IsCall(op) == pc = "ready" /\ calls' = calls + 1 /\ last'.op = op

\* C1: whenever NewScannerLimit succeeds, Start = Current = k for the
\* smallest offset k at which the source holds one of the two 4-byte
\* signatures, and the underlying reader is positioned at k.
C1_StartIsFirstSignature ==
    pc = "ready" =>
        \E k \in SignatureOffsets(source) :
            /\ IsFirstSignature(source, k)
            /\ s.Start = k
            /\ s.Current = k
            /\ s.r.pos = k

\* C2: with a search limit L > 0, a source whose only header starts at
\* offset L-1 yields a Scanner with Start = L-1, and a source whose only
\* header starts at offset L makes NewScannerLimit fail with ErrNoExif.
C2_HeaderBeforeLimit ==
    (pc # "search" /\ startLimit > 0) =>
        \A k \in SignatureOffsets(source) :
            (SignatureOffsets(source) = {k} /\ k + ExifSignatureLength <= Len(source)) =>
                /\ k = startLimit - 1 => (pc = "ready" /\ s.Start = startLimit - 1)
                /\ k = startLimit => (pc = "failed" /\ err = ErrNoExif)

\* C3: if the source holds neither signature at any offset, NewScannerLimit
\* returns a nil Scanner and exactly ErrNoExif, for every search limit.
C3_NoSignatureNoExif ==
    (pc # "search" /\ SignatureOffsets(source) = {}) =>
        (pc = "failed" /\ err = ErrNoExif)

\* C4: for every n >= 1 (the claim says also n = 0, where Peek is peekAll)
\* and every cursor position c with c + n <= Size, a successful Peek(n)
\* returns exactly n bytes, the source bytes at offsets [c, c+n).
C4_PeekExact ==
    [][(IsCall("Peek") /\ last'.n >= 1 /\ last'.err = NoError
            /\ s.Current + last'.n <= s.Size)
        => (Len(last'.b) = last'.n
            /\ last'.b = Slice(s.r.data, s.Current, last'.n))]_vars

\* C5: two consecutive Peek(n) calls return identical bytes, and after each
\* Peek both Current and the reader position are as before the call.
C5_PeekTwice ==
    [][IsCall("Peek")
        => (/\ s'.Current = s.Current
            /\ s'.r.pos = s.r.pos
            /\ (last.op = "Peek" /\ last.n = last'.n) => last'.b = last.b)]_vars

\* C6: Peek(n) with n >= 1 fails whenever fewer than n bytes remain between
\* Current and the end of the source; it never succeeds with padding.
C6_PeekShortFails ==
    [][(IsCall("Peek") /\ last'.n >= 1
            /\ Len(s.r.data) - s.Current < last'.n)
        => last'.err # NoError]_vars

\* C7: for every cursor position c and every integer n with
\* 0 <= c + n <= Size, Discard(n) sets Current to c + n, returns n with a
\* nil error, and reads no bytes from the source.
C7_Discard ==
    [][(IsCall("Discard") /\ 0 <= s.Current + last'.n
            /\ s.Current + last'.n <= s.Size)
        => (/\ s'.Current = s.Current + last'.n
            /\ last'.ret = last'.n
            /\ last'.err = NoError
            /\ last'.read = 0)]_vars

\* a Discard with negative n has rewound the cursor to a position after 0
C7_Witness ==
    /\ last.op = "Discard" /\ last.n < 0 /\ last.err = NoError
    /\ s.Current > 0 /\ s.Current <= s.Size

\* C8: with a buffer limit B > 0, GetFlatExifData called at cursor c on a
\* source of size S leaves, before the header is decoded, a spill area
\* holding exactly the source bytes [c, c + min(B, S - c)), with
\* Current = 0 and Size = min(B, S - c); no more than B bytes are copied.
C8_BoundedSpill ==
    [][(IsCall("GetFlatExifData") /\ s.scanLimit > 0)
        => LET m == Min(s.scanLimit, s.Size - s.Current)
           IN /\ pc' = "spilled"
              /\ s'.r.data = Slice(s.r.data, s.Current, m)
              /\ s'.r.pos = 0
              /\ s'.Current = 0
              /\ s'.Size = m
              /\ last'.read <= s.scanLimit
              /\ Len(s'.r.data) <= s.scanLimit]_vars

\* the spill holds scanLimit bytes, fewer than the source held from Start
C8_Witness ==
    /\ pc = "spilled" /\ s.scanLimit > 0
    /\ Len(s.r.data) = s.scanLimit
    /\ s.Size = s.scanLimit
    /\ s.Size < Len(source) - s.Start

\* C9: with a buffer limit of 0 GetFlatExifData performs no spill: reader,
\* Size and Current are unchanged before the header is decoded; and a
\* search limit of 0 lets the header be found at any offset of the source.
C9_NoLimit ==
    [][/\ (IsCall("GetFlatExifData") /\ s.scanLimit = 0)
            => (s' = s /\ pc' = "spilled" /\ last'.read = 0)
       /\ (pc = "search" /\ pc' # "search" /\ startLimit = 0)
            => \A k \in SignatureOffsets(source) :
                  IsFirstSignature(source, k)
                      => (pc' = "ready" /\ s'.Start = k /\ s'.Current = k)]_vars

\* a Scanner of NewScannerNoLimit that found its header after offset 0 and
\* moved on stands before the header decode of GetFlatExifData
C9_Witness ==
    /\ pc = "spilled" /\ s.scanLimit = 0 /\ startLimit = 0
    /\ s.Start > 0 /\ s.Current > 0 /\ s.r.data = source

\* C10: for every byte order and every 32-bit offset, BuildExifHeader
\* returns exactly 8 bytes, and ParseExifHeader applied to them returns the
\* same byte order and the same offset with no error.
C10_HeaderRoundTrip ==
    /\ hdr.pc \in {"parse", "done"} =>
          (Len(hdr.headerBytes) = 8 /\ hdr.err = NoError)
    /\ hdr.pc = "done" =>
          /\ hdr.eh.ByteOrder = hdr.byteOrder
          /\ hdr.eh.FirstIfdOffset = hdr.firstIfdOffset

\* the little-endian header of offset 0xFFFFFFFE was built and parsed
C10_Witness ==
    /\ hdr.pc = "done"
    /\ hdr.byteOrder = LittleEndian
    /\ hdr.firstIfdOffset = U32(65535, 65534)

\* C11: on an 8-byte window ParseExifHeader returns big-endian iff bytes
\* 0-3 are 'MM\\0*' and little-endian iff they are 'II*\\0', with
\* FirstIfdOffset the bytes 4-7 read as a uint32 in that order (the offset
\* whose encoding in that order is bytes 4-7); every other value of bytes
\* 0-3 and every window shorter than 8 bytes yields ErrNoExif.
C11_ParseHeader ==
    hdr.pc = "done" =>
        LET w == hdr.headerBytes
            full == Len(w) = ExifSignatureLength
        IN IF full /\ SubSeq(w, 1, 4) = <<77, 77, 0, 42>>
           THEN /\ hdr.err = NoError
                /\ hdr.eh.ByteOrder = BigEndian
                /\ PutUint32(BigEndian, hdr.eh.FirstIfdOffset) = SubSeq(w, 5, 8)
           ELSE IF full /\ SubSeq(w, 1, 4) = <<73, 73, 42, 0>>
           THEN /\ hdr.err = NoError
                /\ hdr.eh.ByteOrder = LittleEndian
                /\ PutUint32(LittleEndian, hdr.eh.FirstIfdOffset) = SubSeq(w, 5, 8)
           ELSE /\ hdr.err = ErrNoExif
                /\ hdr.eh.ByteOrder \notin ByteOrders

\* a little-endian window with the offset bytes 01 02 03 04 was parsed
C11_Witness ==
    /\ hdr.pc = "done"
    /\ hdr.headerBytes = <<73, 73, 42, 0, 1, 2, 3, 4>>
    /\ hdr.eh.FirstIfdOffset = U32(1027, 513)

\* the 8-byte window at the cursor is short or starts with no signature
NoHeaderAtCursor(sc) ==
    \/ Len(sc.r.data) - sc.Current < ExifSignatureLength
    \/ ~HasSignatureAt(sc.r.data, sc.Current)

\* C12: when Visit, Collect or GetFlatExifData parses the header directly,
\* a short window or an unrecognized signature at the cursor yields
\* ErrExifHeaderError, distinguishable from ErrNoExif, and the walk is not
\* started.
C12_MalformedHeader ==
    [][((IsCall("Visit") \/ IsCall("Collect") \/ (pc = "spilled" /\ pc' # "spilled"))
            /\ NoHeaderAtCursor(s))
        => (/\ last'.err = ErrExifHeaderError
            /\ last'.err # ErrNoExif
            /\ pc' # "walk")]_vars


\* the tags whose visitor has returned nil so far
Visited == 1..walk.i

Emitted(id) == \E k \in DOMAIN walk.out : walk.out[k].TagId = id

\* the tag on which the walk was aborted, if it was
AbortedOn(id) ==
    /\ walk.pc \in {"aborted", "done"} /\ walk.err # NoError
    /\ id = walk.i + 1

\* C13: in GetFlatExifData a tag whose GetRawBytes returns
\* ErrUnparseableValue is still emitted in the returned list, and the
\* traversal continues with the following tags.
C13_UnparseableEmitted ==
    walk.mode = "GetFlatExifData" =>
        \A id \in DOMAIN walk.tags :
            walk.tags[id].rawErr = ErrUnparseableValue =>
                /\ id \in Visited => Emitted(id)
                /\ ~AbortedOn(id)

\* C16: in Visit, if the callback returns an error on the Nth tag, the
\* callback is never invoked again, Visit returns a non-nil error carrying
\* that failure, and tags 1..N-1 had all been delivered before the abort.
C16_CallbackAbort ==
    (walk.mode = "Visit" /\ walk.failAt \in DOMAIN walk.tags) =>
        /\ Len(walk.delivered) <= walk.failAt
        /\ \A k \in DOMAIN walk.delivered : walk.delivered[k] = k
        /\ walk.pc = "walking" => Len(walk.delivered) < walk.failAt
        /\ walk.pc \in {"aborted", "done"} =>
              Len(walk.delivered) = walk.failAt
        /\ walk.pc = "done" =>
              /\ walk.err = ErrCallback
              /\ walk.wrapped

C16_Witness ==
    /\ walk.mode = "Visit" /\ walk.pc = "done"
    /\ Len(walk.tags) = 3 /\ walk.failAt = 2
    /\ walk.delivered = <<1, 2>>
    /\ walk.err = ErrCallback

WithinOneUlp(a, b) == b \in Neighbours(a)

\* C14: GpsDegreesEquals(a, b) is false whenever the orientations differ,
\* and true whenever they match and each of Degrees, Minutes and Seconds of
\* b is within one unit in the last place of that of a.
C14_GpsDegreesEquals ==
    gps.pc = "done" =>
        /\ gps.gi1.Orientation # gps.gi2.Orientation => ~gps.result
        /\ (/\ gps.gi1.Orientation = gps.gi2.Orientation
            /\ WithinOneUlp(gps.gi1.Degrees, gps.gi2.Degrees)
            /\ WithinOneUlp(gps.gi1.Minutes, gps.gi2.Minutes)
            /\ WithinOneUlp(gps.gi1.Seconds, gps.gi2.Seconds))
              => gps.result

\* C15: when the first header of data starts at offset k (within the
\* default search limit), SearchAndExtractExif and
\* SearchAndExtractExifWithReadSeeker return exactly data[k:] with a nil
\* error.
C15_ExtractFromHeader ==
    ext.pc = "done" =>
        \A k \in 0..Len(source) :
            IsFirstSignature(source, k) =>
                /\ ext.rawExif = Tail0(source, k)
                /\ ~ext.isNil
                /\ ext.err = NoError

C15_Witness ==
    /\ ext.pc = "done" /\ ext.fn = "SearchAndExtractExif"
    /\ IsFirstSignature(source, 2)
    /\ Len(source) > 10
    /\ ext.rawExif = Tail0(source, 2)
    /\ ext.err = NoError

\* C19: SearchAndExtractExif on data that contains no header returns a nil
\* slice and an error that is identical (==) to ErrNoExif.
C19_NoExifUnwrapped ==
    (/\ ext.pc = "done" /\ ext.fn = "SearchAndExtractExif"
     /\ SignatureOffsets(source) = {}) =>
        /\ ext.isNil
        /\ ext.err = ErrNoExif
        /\ ~ext.wrapped

\* the most 8-byte probes a search may make
ProbeBound ==
    IF startLimit > 0 THEN Min(s.Size, startLimit) + 1 ELSE s.Size + 1

\* C18: NewScannerLimit terminates on every finite source: each iteration
\* that continues the loop advances Current by exactly 1 after one probe,
\* and the number of 8-byte probes is at most min(Size, searchLimit) + 1
\* when searchLimit > 0 and at most Size + 1 when searchLimit = 0.
C18_SearchTerminates ==
    /\ <>(pc \in {"ready", "failed"})
    /\ [](probes <= ProbeBound)
    /\ [][(pc = "search" /\ pc' = "search") =>
            /\ s'.Current = s.Current + 1
            /\ probes' = probes + 1]_vars

C18_Witness ==
    /\ pc = "failed" /\ err = ErrNoExif
    /\ startLimit = 2 /\ Len(source) = 5
    /\ probes = 3 /\ s.Current = 3

\* the logical cursor is where the underlying reader is
CursorInSync(sc) == sc.Current = sc.r.pos

\* C20: after any sequence of Read, ReadAll, Peek, PeekAndSeek and Discard
\* calls, including calls that return an error, the logical cursor Current
\* equals the read position of the underlying reader: it does after
\* construction, and each of these calls keeps it so.
C20_CursorIsReaderPosition ==
    [][(/\ \E op \in {"Read", "ReadAll", "Peek", "PeekAndSeek", "Discard"} :
              IsCall(op)
        /\ CursorInSync(s))
          => CursorInSync(s')]_vars

\* the logical cursor lies within the source
CursorInBounds(sc) == 0 <= sc.Current /\ sc.Current <= sc.Size

\* C21: for a Scanner whose Size is the length of its source, after any
\* sequence of Read, ReadAll, Peek, PeekAndSeek, Discard and GetFlatExifData
\* spill steps 0 <= Current <= Size holds, so Remaining() and the spill size
\* are never negative: it holds after construction, and each of these steps
\* keeps it so.
C21_CursorInBounds ==
    [][(/\ \E op \in {"Read", "ReadAll", "Peek", "PeekAndSeek", "Discard",
                      "GetFlatExifData"} : IsCall(op)
        /\ s.Size = Len(s.r.data)
        /\ CursorInBounds(s))
          => (/\ CursorInBounds(s')
              /\ Remaining(s') >= 0
              /\ SpillSize(s') >= 0)]_vars

\* C22: whenever NewScannerLimit succeeds, the complete 8-byte header
\* window lies inside the source (Start + 8 <= Size): a signature in the
\* last 4 to 7 bytes of the source is not accepted as a header.
C22_HeaderWindowInside ==
    pc = "ready" => s.Start + ExifSignatureLength <= s.Size

====
